---- MODULE Spec2Model ----
(***************************************************************************)
(* Model of ai_models/checkpoint.py (peek, tidy, UnpicklerWrapper,         *)
(* FakeStorage) and of ai_models/inputs/__init__.py (RequestBasedInput and *)
(* its MARS / CDS subclasses).                                             *)
(*                                                                         *)
(* Python objects are modelled as follows.                                 *)
(*   - immutable values are records: the literals                          *)
(*     [kind |-> "int" | "float" | "str" | "bool", val |-> <text>],        *)
(*     [kind |-> "none"], tuples [kind |-> "tuple", items |-> <<...>>]     *)
(*     and instances [kind |-> "obj", cls |-> <qualified name>, id |-> n]; *)
(*   - the lists and dicts the unpickler builds are mutable and may be     *)
(*     shared or cyclic: they live in `heap` and are referred to by        *)
(*     [kind |-> "addr", a |-> n];                                         *)
(*   - the lists and dicts tidy() returns are fresh and never shared:      *)
(*     they are written inline, [kind |-> "list", items |-> <<...>>] and   *)
(*     [kind |-> "dict", items |-> << <<k, v>>, ... >>] (insertion order). *)
(***************************************************************************)
EXTENDS Naturals, Sequences, FiniteSets

VARIABLES
    archive,     \* the file at `path`: [exists, zip, names]
    pc,          \* position of the peek() call
    container,   \* the zipfile.ZipFile of the call: "none", "open", "closed"
    opens,       \* number of f.open(...) calls made on the container
    stack,       \* the unpickler's stack
    memo,        \* the unpickler's memo table
    heap,        \* the mutable lists and dicts built by the unpickler
    nread,       \* number of instructions read from the entry's stream
    storages,    \* the FakeStorage instances created, by id
    pids,        \* the pid each persistent_load call was given, by id
    nobj,        \* number of other instances created
    allocated,   \* bytes allocated by torch.UntypedStorage(n) calls
    loaded,      \* what unpickler.load() returned
    x,           \* the local x of peek()
    result,      \* what peek() returned
    outcome      \* "running", "returned" or the exception peek() raised

    \* ai_models/inputs/__init__.py
VARIABLES
    input_name,  \* the name given to get_input: "mars" or "cds"
    owner,       \* the model that owns the input: its parameters and datetimes
    cache,       \* the cached_property values of the input, by property
    requests,    \* the backend requests issued so far, in order
    last         \* the last property read and how it ended

cvars == <<archive, pc, container, opens, stack, memo, heap, nread, storages,
           pids, nobj, allocated, loaded, x, result, outcome>>

----------------------------------------------------------------------------
(* Bounds of the model *)

MaxInstr == 5

MaxStack == 3

MaxHeap == 2

MaxMemo == 1

MaxObjects == 2

MaxNodes == 5

(* The interpreter bounds the depth of recursion and raises RecursionError  *)
(* beyond it.  The limit of the model is above the nesting depth of every   *)
(* acyclic graph that MaxInstr instructions can build.                      *)
RecursionLimit == MaxInstr + 2

----------------------------------------------------------------------------
(* Values *)

None == [kind |-> "none"]

Lit(k, v) == [kind |-> k, val |-> v]

Str(s) == Lit("str", s)

(* No two of these are equal as Python values (7, 2.5, "x", True). *)
Literals == {Lit("int", "7"), Lit("float", "2.5"), Str("x"), Lit("bool", "True"), None}

Tuple(items) == [kind |-> "tuple", items |-> items]

List(items) == [kind |-> "list", items |-> items]

Dict(items) == [kind |-> "dict", items |-> items]

Addr(a) == [kind |-> "addr", a |-> a]

Obj(cls, id) == [kind |-> "obj", cls |-> cls, id |-> id]

FakeStorageClass == "ai_models.checkpoint.FakeStorage"

(* x, or the list or dict x refers to *)
Deref(v) == IF v.kind = "addr" THEN heap[v.a] ELSE v

(* type(x) for an instance: its class, module-qualified *)
TypeOf(v) == v.cls

(* str(type(x)) *)
StrOfType(cls) == Str("<class '" \o cls \o "'>")

RECURSIVE Hashable(_)
Hashable(v) ==
    CASE v.kind = "addr" -> FALSE
      [] v.kind = "tuple" -> \A i \in 1..Len(v.items) : Hashable(v.items[i])
      [] OTHER -> TRUE

(* d[k] = v on the entries of a dict: an equal key keeps its position *)
DictSet(items, k, v) ==
    IF \E i \in 1..Len(items) : items[i][1] = k
    THEN [i \in 1..Len(items) |-> IF items[i][1] = k THEN <<k, v>> ELSE items[i]]
    ELSE Append(items, <<k, v>>)

----------------------------------------------------------------------------
(* checkpoint.py: FakeStorage, UnpicklerWrapper *)

(* The fields FakeStorage.__init__ sets: dtype = torch.float32 and          *)
(* _untyped_storage = torch.UntypedStorage(0), of length 0.                 *)
FakeStorage == [dtype |-> "float32", untyped_storage |-> 0]

(* The arguments of an external-resource reference; the size hint is either *)
(* zero or large.                                                            *)
Pids ==
    {[kind |-> "storage", tag |-> "float32", size |-> 0],
     [kind |-> "storage", tag |-> "int64", size |-> 1000000]}

(* persistent_load that sizes the storage as the reference asks *)
persistent_load_sized(pid) == [dtype |-> pid.tag, untyped_storage |-> pid.size]

(* UnpicklerWrapper.persistent_load(pid): the fields of the instance returned *)
persistent_load(pid) == FakeStorage

(* The classes a stream names, and those the interpreter can import.        *)
Classes == {"argparse.Namespace", "pkg.Widget"}

Importable == {"argparse.Namespace"}

(* pickle.Unpickler.find_class, which UnpicklerWrapper inherits unchanged:   *)
(* it imports the module and fails when the module cannot be imported.       *)
find_class(cls) == IF cls \in Importable THEN cls ELSE "ModuleNotFoundError"

----------------------------------------------------------------------------
(* checkpoint.py: tidy *)

RecursionError == [kind |-> "raise", exc |-> "RecursionError"]

Raised(r) == r.kind = "raise"

RECURSIVE tidy_rec(_, _)
RECURSIVE tidy_each(_, _)
RECURSIVE tidy_items(_, _, _)

(* [tidy(v) for v in x]: [kind |-> "ok", items |-> ...] or the exception *)
tidy_each(vs, depth) ==
    IF vs = <<>> THEN [kind |-> "ok", items |-> <<>>]
    ELSE LET h == tidy_rec(Head(vs), depth)
         IN  IF Raised(h) THEN h
             ELSE LET t == tidy_each(Tail(vs), depth)
                  IN  IF Raised(t) THEN t
                      ELSE [kind |-> "ok", items |-> <<h>> \o t.items]

(* {k: tidy(v) for k, v in x.items()}, acc the dict built so far *)
tidy_items(kvs, acc, depth) ==
    IF kvs = <<>> THEN [kind |-> "ok", items |-> acc]
    ELSE LET v == tidy_rec(Head(kvs)[2], depth)
         IN  IF Raised(v) THEN v
             ELSE tidy_items(Tail(kvs), DictSet(acc, Head(kvs)[1], v), depth)

(* tidy's fall-through, str(type(x)), with str dropped from the isinstance test *)
tidy_leaf_nostr(v) ==
    CASE v.kind = "none" -> v
      [] v.kind \in {"int", "float", "bool"} -> v
      [] v.kind = "str" -> StrOfType("str")
      [] OTHER -> StrOfType(TypeOf(v))

(* tidy's fall-through that renders the instance's class name alone *)
tidy_leaf_bare(v) ==
    CASE v.kind = "none" -> v
      [] v.kind \in {"int", "float", "str", "bool"} -> v
      [] OTHER -> Str(TypeOf(v))

(* tidy on a value that is no dict, list or tuple *)
tidy_leaf(v) ==
    CASE v.kind = "none" -> v
      [] v.kind \in {"int", "float", "str", "bool"} -> v
      [] OTHER -> StrOfType(TypeOf(v))

(* tidy that returns a list for a tuple *)
tidy_tuple_as_list(items) == List(items)

(* line 37: tuple([...]) *)
tidy_tuple(items) == Tuple(items)

(* tidy(x) in a frame at the given depth of recursion *)
tidy_rec(v, depth) ==
    IF depth > RecursionLimit THEN RecursionError
    ELSE LET o == Deref(v)
         IN  CASE o.kind = "dict" ->
                    LET r == tidy_items(o.items, <<>>, depth + 1)
                    IN  IF Raised(r) THEN r ELSE Dict(r.items)
               [] o.kind = "list" ->
                    LET r == tidy_each(o.items, depth + 1)
                    IN  IF Raised(r) THEN r ELSE List(r.items)
               [] o.kind = "tuple" ->
                    LET r == tidy_each(o.items, depth + 1)
                    IN  IF Raised(r) THEN r ELSE tidy_tuple(r.items)
               [] OTHER -> tidy_leaf(o)

tidy(v) == tidy_rec(v, 1)

----------------------------------------------------------------------------
(* checkpoint.py: peek *)

Entry == "archive/data.pkl"

EntryNames == {Entry, "archive/version"}

Unset == [kind |-> "unset"]

(* no file, a file that is no zip archive, and zip archives with and        *)
(* without the entry                                                        *)
Archives ==
    {[exists |-> FALSE, zip |-> FALSE, names |-> {}],
     [exists |-> TRUE, zip |-> FALSE, names |-> {}],
     [exists |-> TRUE, zip |-> TRUE, names |-> {}],
     [exists |-> TRUE, zip |-> TRUE, names |-> {"archive/version"}],
     [exists |-> TRUE, zip |-> TRUE, names |-> EntryNames]}

CInit ==
    /\ archive \in Archives
    /\ pc = "start"
    /\ container = "none"
    /\ opens = 0
    /\ stack = <<>>
    /\ memo = <<>>
    /\ heap = <<>>
    /\ nread = 0
    /\ storages = <<>>
    /\ pids = <<>>
    /\ nobj = 0
    /\ allocated = 0
    /\ loaded = Unset
    /\ x = Unset
    /\ result = Unset
    /\ outcome = "running"

(* An exception leaves the with block without closing the container *)
with_exit_leaks(exc) ==
    /\ pc' = "done"
    /\ outcome' = exc
    /\ UNCHANGED container

(* An exception raised inside the with block of peek: ZipFile.__exit__      *)
(* closes the container and the exception propagates to the caller.         *)
with_exit(exc) ==
    /\ pc' = "done"
    /\ outcome' = exc
    /\ container' = "closed"

(* line 49: zipfile.ZipFile(path, "r") *)
peek_open ==
    /\ pc = "start"
    /\ UNCHANGED <<archive, opens, stack, memo, heap, nread, storages, pids,
                   nobj, allocated, loaded, x, result>>
    /\ \/ /\ ~archive.exists
          /\ pc' = "done" /\ outcome' = "FileNotFoundError" /\ UNCHANGED container
       \/ /\ archive.exists /\ ~archive.zip
          /\ pc' = "done" /\ outcome' = "BadZipFile" /\ UNCHANGED container
       \/ /\ archive.zip
          /\ pc' = "opened" /\ container' = "open" /\ UNCHANGED outcome

(* f.open that hands out an empty stream for a member that is not there *)
zip_open_silent(names, name) == "stream"

(* ZipFile.open(name, "r") as peek uses it: the member's stream, or KeyError *)
(* when the archive has no member of that name                              *)
zip_open(names, name) == IF name \in names THEN "stream" ELSE "KeyError"

(* line 50: f.open("archive/data.pkl", "r") and the construction of the     *)
(* unpickler                                                                *)
peek_open_entry ==
    /\ pc = "opened"
    /\ opens' = opens + 1
    /\ UNCHANGED <<archive, stack, memo, heap, nread, storages, pids, nobj,
                   allocated, loaded, x, result>>
    /\ \/ /\ zip_open(archive.names, Entry) = "KeyError"
          /\ with_exit("KeyError")
       \/ /\ zip_open(archive.names, Entry) = "stream"
          /\ pc' = "loading" /\ UNCHANGED <<container, outcome>>

----------------------------------------------------------------------------
(* line 51, unpickler.load(): one instruction of the stream per step *)

Top == stack[Len(stack)]

Pop(n) == SubSeq(stack, 1, Len(stack) - n)

Reading == pc = "loading" /\ nread < MaxInstr

(* the instruction fails: the exception leaves load() and the with block,   *)
(* and the unpickler and what it had built are dropped with the frame       *)
load_raise(exc) ==
    /\ with_exit(exc)
    /\ nread' = nread + 1
    /\ stack' = <<>> /\ memo' = <<>> /\ heap' = <<>>
    /\ UNCHANGED <<archive, opens, storages, pids, nobj, allocated, loaded, x,
                   result>>

(* the instruction leaves newstack and touches nothing else *)
load_stack(newstack) ==
    /\ stack' = newstack
    /\ nread' = nread + 1
    /\ UNCHANGED <<archive, pc, container, opens, memo, heap, storages, pids,
                   nobj, allocated, loaded, x, result, outcome>>

(* the stream ends before STOP *)
load_eof ==
    /\ Reading
    /\ load_raise("EOFError")

(* NONE, NEWTRUE, BININT, BINFLOAT, BINUNICODE *)
op_literal ==
    /\ Reading /\ Len(stack) < MaxStack
    /\ \E l \in Literals : load_stack(Append(stack, l))

(* EMPTY_LIST, EMPTY_DICT *)
op_empty ==
    /\ Reading /\ Len(stack) < MaxStack /\ Len(heap) < MaxHeap
    /\ \E k \in {"list", "dict"} :
          /\ heap' = Append(heap, [kind |-> k, items |-> <<>>])
          /\ stack' = Append(stack, Addr(Len(heap) + 1))
    /\ nread' = nread + 1
    /\ UNCHANGED <<archive, pc, container, opens, memo, storages, pids, nobj,
                   allocated, loaded, x, result, outcome>>

(* EMPTY_TUPLE, TUPLE1, TUPLE2 *)
op_tuple ==
    /\ Reading
    /\ \E n \in 0..2 :
          \/ /\ Len(stack) >= n /\ Len(stack) - n < MaxStack
             /\ load_stack(Append(Pop(n), Tuple(SubSeq(stack, Len(stack) - n + 1, Len(stack)))))
          \/ /\ Len(stack) < n
             /\ load_raise("UnpicklingError")

(* APPEND: list.append(value) on the object below the top *)
op_append ==
    /\ Reading
    /\ \/ /\ Len(stack) < 2
          /\ load_raise("UnpicklingError")
       \/ /\ Len(stack) >= 2
          /\ Deref(stack[Len(stack) - 1]).kind # "list"
          /\ load_raise("AttributeError")
       \/ /\ Len(stack) >= 2
          /\ stack[Len(stack) - 1].kind = "addr"
          /\ LET a == stack[Len(stack) - 1].a
             IN  /\ heap[a].kind = "list"
                 /\ heap' = [heap EXCEPT ![a].items = Append(@, Top)]
          /\ stack' = Pop(1)
          /\ nread' = nread + 1
          /\ UNCHANGED <<archive, pc, container, opens, memo, storages, pids, nobj,
                         allocated, loaded, x, result, outcome>>

(* the index a key denotes in list[key] = value *)
IndexOf(k) == IF k.kind = "bool" THEN 1 ELSE 7

(* SETITEM: obj[key] = value on the object below key and value *)
op_setitem ==
    /\ Reading
    /\ \/ /\ Len(stack) < 3
          /\ load_raise("UnpicklingError")
       \/ /\ Len(stack) >= 3
          /\ LET d == stack[Len(stack) - 2]
                 k == stack[Len(stack) - 1]
                 o == Deref(d)
             IN  \/ /\ o.kind = "dict" /\ Hashable(k)
                    /\ heap' = [heap EXCEPT ![d.a].items = DictSet(@, k, Top)]
                    /\ stack' = Pop(2)
                    /\ nread' = nread + 1
                    /\ UNCHANGED <<archive, pc, container, opens, memo, storages,
                                   pids, nobj, allocated, loaded, x, result, outcome>>
                 \/ /\ o.kind = "dict" /\ ~Hashable(k)
                    /\ load_raise("TypeError")
                 \/ /\ o.kind = "list" /\ k.kind \in {"int", "bool"}
                    /\ IF IndexOf(k) < Len(o.items)
                       THEN /\ heap' = [heap EXCEPT ![d.a].items[IndexOf(k) + 1] = Top]
                            /\ stack' = Pop(2)
                            /\ nread' = nread + 1
                            /\ UNCHANGED <<archive, pc, container, opens, memo,
                                           storages, pids, nobj, allocated, loaded,
                                           x, result, outcome>>
                       ELSE load_raise("IndexError")
                 \/ /\ \/ o.kind = "list" /\ k.kind \notin {"int", "bool"}
                       \/ o.kind \notin {"dict", "list"}
                    /\ load_raise("TypeError")

(* MEMOIZE: the top of the stack gets the next memo slot *)
op_memoize ==
    /\ Reading
    /\ \/ /\ stack = <<>>
          /\ load_raise("UnpicklingError")
       \/ /\ stack # <<>> /\ Len(memo) < MaxMemo
          /\ memo' = Append(memo, Top)
          /\ nread' = nread + 1
          /\ UNCHANGED <<archive, pc, container, opens, stack, heap, storages, pids,
                         nobj, allocated, loaded, x, result, outcome>>

(* BINGET: the object in a memo slot, the same object and no copy *)
op_binget ==
    /\ Reading
    /\ \E m \in 1..MaxMemo :
          \/ /\ m <= Len(memo) /\ Len(stack) < MaxStack
             /\ load_stack(Append(stack, memo[m]))
          \/ /\ m > Len(memo)
             /\ load_raise("UnpicklingError")

(* BINPERSID: the external-resource reference, resolved by persistent_load; *)
(* the instance it returns is constructed by FakeStorage.__init__.          *)
op_binpersid ==
    /\ Reading /\ Len(stack) < MaxStack /\ Len(storages) + nobj < MaxObjects
    /\ \E pid \in Pids :
          LET s == persistent_load(pid)
          IN  /\ storages' = Append(storages, s)
              /\ pids' = Append(pids, pid)
              /\ allocated' = allocated + s.untyped_storage
              /\ stack' = Append(stack, Obj(FakeStorageClass, Len(storages) + 1))
    /\ nread' = nread + 1
    /\ UNCHANGED <<archive, pc, container, opens, memo, heap, nobj, loaded, x,
                   result, outcome>>

(* GLOBAL and NEWOBJ: an instance of the class the stream names *)
op_newobj ==
    /\ Reading
    /\ \E cls \in Classes :
          \/ /\ find_class(cls) = cls
             /\ Len(stack) < MaxStack /\ Len(storages) + nobj < MaxObjects
             /\ nobj' = nobj + 1
             /\ stack' = Append(stack, Obj(cls, nobj + 1))
             /\ nread' = nread + 1
             /\ UNCHANGED <<archive, pc, container, opens, memo, heap, storages,
                            pids, allocated, loaded, x, result, outcome>>
          \/ /\ find_class(cls) # cls
             /\ load_raise(find_class(cls))

(* STOP: load() returns the top of the stack *)
op_stop ==
    /\ Reading
    /\ \/ /\ stack = <<>>
          /\ load_raise("UnpicklingError")
       \/ /\ stack # <<>>
          /\ loaded' = Top
          /\ pc' = "loaded"
          /\ stack' = Pop(1)
          /\ nread' = nread + 1
          /\ UNCHANGED <<archive, container, opens, memo, heap, storages, pids,
                         nobj, allocated, x, result, outcome>>

(* line 51: x = tidy(unpickler.load()) *)
peek_tidy ==
    /\ pc = "loaded"
    /\ LET r == tidy(loaded)
       IN  IF Raised(r)
           THEN with_exit(r.exc) /\ UNCHANGED x
           ELSE x' = r /\ pc' = "tidied" /\ UNCHANGED <<container, outcome>>
    /\ UNCHANGED <<archive, opens, stack, memo, heap, nread, storages, pids, nobj,
                   allocated, loaded, result>>

(* line 52: return tidy(x), and the with block closes the container *)
peek_return ==
    /\ pc = "tidied"
    /\ LET r == tidy(x)
       IN  IF Raised(r)
           THEN with_exit(r.exc) /\ UNCHANGED result
           ELSE result' = r /\ pc' = "done" /\ outcome' = "returned"
                /\ container' = "closed"
    /\ UNCHANGED <<archive, opens, stack, memo, heap, nread, storages, pids, nobj,
                   allocated, loaded, x>>

----------------------------------------------------------------------------
(* inputs/__init__.py: RequestBasedInput, MarsInput, CdsInput *)

MaxDatetimes == 2

ivars == <<input_name, owner, cache, requests, last>>

vars == <<cvars, ivars>>

(* The names the module binds at import (lines 8 to 13 and its own classes  *)
(* and functions): cml is not one of them.                                  *)
ModuleGlobals ==
    {"logging", "cached_property", "ekd", "LOG", "RequestBasedInput", "MarsInput",
     "CdsInput", "FileInput", "INPUTS", "get_input", "available_inputs"}

Props == {"fields_sfc", "fields_pl", "fields_ml"}

DateTime(k) == <<20230100 + k, 600 * k>>

(* the sequences of distinct (date, time) pairs owner.datetimes() may return *)
DatetimeLists ==
    {s \in UNION {[1..n -> {DateTime(k) : k \in 1..MaxDatetimes}] : n \in 0..MaxDatetimes} :
        \A i, j \in 1..Len(s) : i # j => s[i] # s[j]}

ParamLevels == {<<<<>>, <<>>>>, <<<<"t">>, <<>>>>, <<<<>>, <<850>>>>, <<<<"t">>, <<850>>>>}

Owners ==
    [param_sfc : {<<>>, <<"2t">>},
     param_level_pl : ParamLevels,
     param_level_ml : ParamLevels,
     datetimes : DatetimeLists,
     patch : {"none", "expver"}]

IInit ==
    /\ input_name \in {"mars", "cds"}
    /\ owner \in Owners
    /\ cache = [p \in Props |-> Unset]
    /\ requests = <<>>
    /\ last = [prop |-> "none", exc |-> "none", cached |-> FALSE, issued |-> 0,
               value |-> Unset]

(* owner.patch_retrieve_request(r): the owner's hook, which may change the   *)
(* request in place; the request records which hook it went through         *)
patch_retrieve_request(r) == [r EXCEPT !.patched = owner.patch]

(* _patch: the keyword arguments as a dict, handed to the owner's hook *)
_patch(r) == patch_retrieve_request(r)

(* sfc_load_source, pl_load_source, ml_load_source of MarsInput and CdsInput: *)
(* the backend request issued, or the exception raised                        *)
load_source(levtype, r) ==
    CASE input_name = "mars" ->
            [r EXCEPT !.backend = "mars", !.levtype = levtype]
      [] input_name = "cds" /\ levtype = "pl" ->
            [r EXCEPT !.backend = "cds", !.dataset = "reanalysis-era5-pressure-levels",
                      !.product_type = "reanalysis"]
      [] input_name = "cds" /\ levtype = "sfc" ->
            [r EXCEPT !.backend = "cds", !.dataset = "reanalysis-era5-single-levels",
                      !.product_type = "reanalysis"]
      [] OTHER -> [kind |-> "raise", exc |-> "NotImplementedError"]

(* the keyword arguments a fields property builds for one (date, time) *)
Request(dt, param, level) ==
    [kind |-> "request", date |-> dt[1], time |-> dt[2], param |-> param,
     level |-> level, patched |-> "no", backend |-> "", levtype |-> "",
     dataset |-> "", product_type |-> ""]

LevtypeOf(prop) ==
    CASE prop = "fields_sfc" -> "sfc" [] prop = "fields_pl" -> "pl" [] OTHER -> "ml"

ParamOf(prop) ==
    CASE prop = "fields_sfc" -> owner.param_sfc
      [] prop = "fields_pl" -> owner.param_level_pl[1]
      [] OTHER -> owner.param_level_ml[1]

LevelOf(prop) ==
    CASE prop = "fields_sfc" -> <<>>
      [] prop = "fields_pl" -> owner.param_level_pl[2]
      [] OTHER -> owner.param_level_ml[2]

(* `not param` (line 28), `not (param and level)` (lines 53 and 77) *)
NoParams(prop) ==
    IF prop = "fields_sfc" THEN ParamOf(prop) = <<>>
    ELSE ParamOf(prop) = <<>> \/ LevelOf(prop) = <<>>

RECURSIVE load_all(_, _, _)
(* the list comprehension over owner.datetimes(): the requests issued, in    *)
(* order, and the exception that ended it, if any                            *)
load_all(prop, dts, acc) ==
    IF dts = <<>> THEN [exc |-> "none", issued |-> acc]
    ELSE LET r == load_source(LevtypeOf(prop),
                              _patch(Request(Head(dts), ParamOf(prop), LevelOf(prop))))
         IN  IF r.kind = "raise" THEN [exc |-> r.exc, issued |-> acc]
             ELSE load_all(prop, Tail(dts), Append(acc, r))

(* cml.load_source("empty"): the global name cml is looked up first *)
load_empty ==
    IF "cml" \in ModuleGlobals
    THEN [exc |-> "none", value |-> [kind |-> "empty"]]
    ELSE [exc |-> "NameError", value |-> Unset]

(* One read of a fields property with the given cache: what it returns or   *)
(* raises, the requests it issues and the cache it leaves.  A                *)
(* cached_property runs its body on the first read that returns and keeps    *)
(* the value.                                                                *)
fields(prop, c) ==
    IF c[prop] # Unset
    THEN [exc |-> "none", value |-> c[prop], issued |-> <<>>, cache |-> c,
          cached |-> TRUE]
    ELSE IF NoParams(prop)
    THEN [exc |-> load_empty.exc, value |-> load_empty.value, issued |-> <<>>,
          cache |-> IF load_empty.exc = "none"
                    THEN [c EXCEPT ![prop] = load_empty.value] ELSE c,
          cached |-> FALSE]
    ELSE LET r == load_all(prop, owner.datetimes, <<>>)
             v == [kind |-> "multi", sources |-> r.issued]
         IN  IF r.exc # "none"
             THEN [exc |-> r.exc, value |-> Unset, issued |-> r.issued, cache |-> c,
                   cached |-> FALSE]
             ELSE [exc |-> "none", value |-> v, issued |-> r.issued,
                   cache |-> [c EXCEPT ![prop] = v], cached |-> FALSE]

(* reading input.fields_sfc, input.fields_pl or input.fields_ml *)
read_fields(prop) ==
    LET r == fields(prop, cache)
    IN  /\ cache' = r.cache
        /\ requests' = requests \o r.issued
        /\ last' = [prop |-> prop, exc |-> r.exc, cached |-> r.cached,
                    issued |-> Len(r.issued), value |-> r.value]
        /\ UNCHANGED <<input_name, owner>>

read_fields_sfc == read_fields("fields_sfc")

read_fields_pl == read_fields("fields_pl")

read_fields_ml == read_fields("fields_ml")

(* lines 98 to 100: self.fields_sfc + self.fields_pl + self.fields_ml, read  *)
(* left to right; the first exception ends it                                *)
read_all_fields ==
    LET a == fields("fields_sfc", cache)
        b == fields("fields_pl", a.cache)
        c == fields("fields_ml", b.cache)
        exc == IF a.exc # "none" THEN a.exc
               ELSE IF b.exc # "none" THEN b.exc ELSE c.exc
        upto == IF a.exc # "none" THEN a
                ELSE IF b.exc # "none" THEN [b EXCEPT !.issued = a.issued \o @]
                ELSE [c EXCEPT !.issued = a.issued \o b.issued \o @]
    IN  /\ cache' = upto.cache
        /\ requests' = requests \o upto.issued
        /\ last' = [prop |-> "all_fields", exc |-> exc, cached |-> FALSE,
                    issued |-> Len(upto.issued), value |-> Unset]
        /\ UNCHANGED <<input_name, owner>>

----------------------------------------------------------------------------
(* Specifications *)

CIdle ==
    /\ archive = [exists |-> FALSE, zip |-> FALSE, names |-> {}]
    /\ pc = "done" /\ container = "none" /\ opens = 0 /\ stack = <<>>
    /\ memo = <<>> /\ heap = <<>> /\ nread = 0 /\ storages = <<>> /\ pids = <<>>
    /\ nobj = 0 /\ allocated = 0 /\ loaded = Unset /\ x = Unset
    /\ result = Unset /\ outcome = "idle"

IIdle ==
    /\ input_name = "none"
    /\ owner = Unset
    /\ cache = [p \in Props |-> Unset]
    /\ requests = <<>>
    /\ last = [prop |-> "none", exc |-> "none", cached |-> FALSE, issued |-> 0,
               value |-> Unset]

Init == CInit /\ IIdle

Next ==
    \/ peek_open /\ UNCHANGED ivars
    \/ peek_open_entry /\ UNCHANGED ivars
    \/ load_eof /\ UNCHANGED ivars
    \/ op_literal /\ UNCHANGED ivars
    \/ op_empty /\ UNCHANGED ivars
    \/ op_tuple /\ UNCHANGED ivars
    \/ op_append /\ UNCHANGED ivars
    \/ op_setitem /\ UNCHANGED ivars
    \/ op_memoize /\ UNCHANGED ivars
    \/ op_binget /\ UNCHANGED ivars
    \/ op_binpersid /\ UNCHANGED ivars
    \/ op_newobj /\ UNCHANGED ivars
    \/ op_stop /\ UNCHANGED ivars
    \/ peek_tidy /\ UNCHANGED ivars
    \/ peek_return /\ UNCHANGED ivars

(* one call of peek(path) *)
Spec == Init /\ [][Next]_vars

(* The graphs of at most MaxNodes nodes, without sharing: what load() may   *)
(* hand to tidy.  A dict has hashable keys, no two of them equal.  A graph   *)
(* is a shape, whose leaves are holes, and a choice of leaf for every hole.  *)
Leaves == Literals \cup {Obj(FakeStorageClass, 1)}

Hole == [kind |-> "hole"]

RECURSIVE Sized(_)
RECURSIVE SeqsSized(_)
RECURSIVE EntriesSized(_)

(* the sequences of shapes of n nodes in all *)
SeqsSized(n) ==
    IF n = 0 THEN {<<>>}
    ELSE UNION {{<<v>> \o r : v \in Sized(k), r \in SeqsSized(n - k)} : k \in 1..n}

(* the entries of a dict, keys and values of n nodes in all *)
EntriesSized(n) ==
    IF n = 0 THEN {<<>>}
    ELSE UNION {UNION {
            {<<<<k, v>>>> \o r :
                k \in {h \in Sized(a) : Hashable(h)}, v \in Sized(b),
                r \in EntriesSized(n - a - b)} :
            b \in 1..(n - a)} : a \in 1..(n - 1)}

(* the shapes of exactly n nodes *)
Sized(n) ==
    IF n = 1 THEN {Hole, List(<<>>), Tuple(<<>>), Dict(<<>>)}
    ELSE {List(r) : r \in SeqsSized(n - 1)}
         \cup {Tuple(r) : r \in SeqsSized(n - 1)}
         \cup {Dict(e) : e \in EntriesSized(n - 1)}

Shapes == UNION {Sized(n) : n \in 1..MaxNodes}

RECURSIVE Holes(_)
RECURSIVE HolesIn(_)
(* the number of holes of a shape, and of a sequence of shapes *)
Holes(s) ==
    CASE s.kind = "hole" -> 1
      [] s.kind \in {"list", "tuple"} -> HolesIn(s.items)
      [] s.kind = "dict" ->
            HolesIn([i \in 1..(2 * Len(s.items)) |-> s.items[(i + 1) \div 2][2 - (i % 2)]])
      [] OTHER -> 0

HolesIn(ss) == IF ss = <<>> THEN 0 ELSE Holes(Head(ss)) + HolesIn(Tail(ss))

RECURSIVE Fill(_, _, _)
(* the shape with its holes, from the i-th on, filled from f *)
Fill(s, f, i) ==
    CASE s.kind = "hole" -> f[i]
      [] s.kind \in {"list", "tuple"} ->
            [s EXCEPT !.items =
                [j \in 1..Len(s.items) |->
                    Fill(s.items[j], f, i + HolesIn(SubSeq(s.items, 1, j - 1)))]]
      [] s.kind = "dict" ->
            [s EXCEPT !.items =
                [j \in 1..Len(s.items) |->
                    LET before == HolesIn([m \in 1..(2 * (j - 1)) |->
                                      s.items[(m + 1) \div 2][2 - (m % 2)]])
                    IN  <<Fill(s.items[j][1], f, i + before),
                          Fill(s.items[j][2], f, i + before + Holes(s.items[j][1]))>>]]
      [] OTHER -> s

RECURSIVE WellFormed(_)
(* the keys of every dict differ *)
WellFormed(v) ==
    CASE v.kind \in {"list", "tuple"} -> \A j \in 1..Len(v.items) : WellFormed(v.items[j])
      [] v.kind = "dict" ->
            /\ \A j, m \in 1..Len(v.items) : j # m => v.items[j][1] # v.items[m][1]
            /\ \A j \in 1..Len(v.items) :
                  WellFormed(v.items[j][1]) /\ WellFormed(v.items[j][2])
      [] OTHER -> TRUE

TidyInit ==
    /\ archive = [exists |-> TRUE, zip |-> TRUE, names |-> EntryNames]
    /\ pc = "loaded"
    /\ container = "open"
    /\ opens = 1
    /\ stack = <<>>
    /\ memo = <<>>
    /\ heap = <<>>
    /\ nread = 0
    /\ storages = <<FakeStorage>>
    /\ pids = <<[kind |-> "storage", tag |-> "int64", size |-> 1000000]>>
    /\ nobj = 0
    /\ allocated = 0
    /\ \E s \in Shapes : \E f \in [1..Holes(s) -> Leaves] :
          /\ loaded = Fill(s, f, 1)
          /\ WellFormed(loaded)
    /\ x = Unset
    /\ result = Unset
    /\ outcome = "running"
    /\ IIdle

TidyNext ==
    \/ peek_tidy /\ UNCHANGED ivars
    \/ peek_return /\ UNCHANGED ivars

(* lines 51 and 52 of peek on every graph of at most MaxNodes nodes *)
TidySpec == TidyInit /\ [][TidyNext]_vars

InputsInit == IInit /\ CIdle

InputsNext ==
    \/ read_fields_sfc /\ UNCHANGED cvars
    \/ read_fields_pl /\ UNCHANGED cvars
    \/ read_fields_ml /\ UNCHANGED cvars
    \/ read_all_fields /\ UNCHANGED cvars

(* reads of the properties of one input built by get_input *)
InputsSpec == InputsInit /\ [][InputsNext]_vars

----------------------------------------------------------------------------
(* Properties of checkpoint.py *)

Sanitized == pc \in {"tidied", "done"} /\ x # Unset

(* C1: sanitize is total: whenever load() has handed a graph to tidy, cyclic *)
(* or not, peek ends by returning a value and never by an exception.         *)
C1_SanitizeTotal == pc = "done" /\ loaded # Unset => outcome = "returned"

(* C2: every placeholder made for an external-resource reference has a       *)
(* backing of length 0 and no byte was allocated for any of them, whatever   *)
(* the reference's storage kind, element-type tag and size hint.             *)
C2_PlaceholderBackingEmpty ==
    /\ allocated = 0
    /\ Len(pids) = Len(storages)
    /\ \A i \in 1..Len(storages) : storages[i].untyped_storage = 0

(* a reference with a large size hint has been resolved *)
C2_Witness ==
    /\ \E i \in 1..Len(pids) : pids[i].size = 1000000
    /\ \E i \in 1..Len(stack) : stack[i] = Obj(FakeStorageClass, 1)

(* C3: every key of a sanitized mapping is itself sanitized, that is, tidy   *)
(* leaves it as it is.                                                       *)
C3_KeysSanitized ==
    Sanitized /\ x.kind = "dict" =>
        \A i \in 1..Len(x.items) : tidy(x.items[i][1]) = x.items[i][1]

RECURSIVE StoragePairs(_, _)
(* the placeholders met as items and values of the graph v, each with what   *)
(* the sanitized graph t holds at its position                               *)
StoragePairs(v, t) ==
    LET o == Deref(v)
    IN  CASE o.kind \in {"list", "tuple"} ->
                UNION {StoragePairs(o.items[i], t.items[i]) : i \in 1..Len(o.items)}
          [] o.kind = "dict" ->
                UNION {StoragePairs(o.items[i][2], t.items[i][2]) : i \in 1..Len(o.items)}
          [] o.kind = "obj" /\ o.cls = FakeStorageClass -> {<<o.id, t>>}
          [] OTHER -> {}

C5_UnknownRecordDegrades ==
    /\ outcome # "ModuleNotFoundError"
    /\ pc = "done" /\ outcome = "returned" /\ loaded.kind = "obj" /\ loaded.cls \in Classes
          => result = Str(loaded.cls)

C8_ContainerClosed ==
    /\ container = "open" <=> pc \in {"opened", "loading", "loaded", "tidied"}
    /\ opens <= 1
    /\ pc = "done" =>
          IF outcome \in {"FileNotFoundError", "BadZipFile"}
          THEN container = "none" /\ opens = 0
          ELSE container = "closed" /\ opens = 1

(* peek has ended by an exception raised while sanitizing *)
C8_Witness ==
    pc = "done" /\ outcome = "RecursionError" /\ container = "closed" /\ opens = 1

RECURSIVE Plain(_)
(* built from int, float, str, bool, None, lists, tuples and dicts with      *)
(* primitive keys                                                            *)
Plain(v) ==
    CASE v.kind \in {"int", "float", "str", "bool", "none"} -> TRUE
      [] v.kind \in {"list", "tuple"} -> \A i \in 1..Len(v.items) : Plain(v.items[i])
      [] v.kind = "dict" ->
            \A i \in 1..Len(v.items) :
                /\ v.items[i][1].kind \in {"int", "float", "str", "bool"}
                /\ Plain(v.items[i][2])
      [] OTHER -> FALSE

(* C6: tidy returns a plain acyclic graph as it is: every node keeps its     *)
(* kind, its length and the order of its children, every primitive and None  *)
(* is unchanged.                                                             *)
C6_StructuralFidelity == Sanitized /\ Plain(loaded) => x = loaded

(* a dict of two entries holding a list and a tuple has been sanitized *)
C6_Witness ==
    /\ pc = "tidied" /\ Plain(loaded)
    /\ loaded.kind = "dict" /\ Len(loaded.items) = 2
    /\ loaded.items[1][2].kind = "tuple" /\ loaded.items[2][2].kind = "list"

(* C9: the second pass of tidy returns what the first returned. *)
C9_Idempotent == pc = "done" /\ outcome = "returned" => result = x

(* peek has returned a graph whose first pass replaced an instance *)
C9_Witness ==
    /\ pc = "done" /\ outcome = "returned" /\ x # loaded
    /\ loaded.kind = "tuple" /\ Len(loaded.items) = 2

----------------------------------------------------------------------------
(* Properties of inputs/__init__.py *)

(* C10: a first read of fields_sfc, fields_pl or fields_ml yields an empty   *)
(* source, without failing and without a backend request, when the owner     *)
(* declares no parameters for the level type, and otherwise issues one       *)
(* patched backend request per (date, time) of owner.datetimes(), in order.  *)
C10_EmptyOrOnePerDatetime ==
    last.prop \in Props /\ ~last.cached =>
        IF NoParams(last.prop)
        THEN last.exc = "none" /\ last.value = [kind |-> "empty"] /\ last.issued = 0
        ELSE /\ last.exc = "none"
             /\ last.issued = Len(owner.datetimes)
             /\ \A i \in 1..Len(owner.datetimes) :
                   /\ last.value.sources[i].date = owner.datetimes[i][1]
                   /\ last.value.sources[i].time = owner.datetimes[i][2]
                   /\ last.value.sources[i].patched = owner.patch

====
